---- MODULE Spec2Model ----
(***************************************************************************)
(* Orchestration core of x4build: debounce timers, the live-reload (HMR)  *)
(* hub, the process monitor and the watch/rebuild path.                    *)
(*                                                                         *)
(* Two programs are modelled over one set of variables:                    *)
(*   Spec     src/x4build.mjs            (monitor and live-reload hub)     *)
(*   SpecMon  src/x4build.mjs            (its is_node branch alone)        *)
(*   SpecSrv  src/x4build.mjs            (its static file server alone)    *)
(*   SpecCmd  src/unnamed/part_001       (commander version, build():      *)
(*                                        source watcher and build cycle)  *)
(*   SpecWatchers                        (either program, its watchers)    *)
(*   SpecModes   src/x4build.mjs         (every argument combination)      *)
(*   SpecServe   src/x4build.mjs         (static server and watch mode)    *)
(*   SpecCmdHmr  src/unnamed/part_001    (build cycle next to the hub)     *)
(*   SpecActions src/unnamed/part_001    (build actions of package.json)   *)
(*   SpecHub     src/x4build.mjs         (the hub with browsers that leave)*)
(*                                                                         *)
(* Time is discrete.  A timeout is a record with the milliseconds that     *)
(* remain; Advance(d) lets d ms pass and never skips a due timeout.  A due *)
(* timeout runs before any other callback of the same instant (the event   *)
(* loop runs its timers phase first).                                      *)
(***************************************************************************)
EXTENDS Integers, Sequences, FiniteSets, TLC

VARIABLES
    args,          \* command line: [type, monitor, hmr, serve, watch, run]
    crashed,       \* the orchestrator died of an uncaught exception
    timers,        \* outstanding timeouts (setTimeout not yet run or cleared)
    nchanges,      \* number of file-system change events so far (bounded)
    since,         \* observer: ms since the last change event that came after
                   \* 'ready' and was not ignored (capped; -1 = none yet)
    \* ---- process monitor (x4build.mjs, is_node && monitor)
    isReadyMon,    \* isReady of the monitor watcher
    updateTmo,     \* handle of the restart timeout (0 = undefined)
    procs,         \* every process spawned so far, in spawn order
    proc,          \* index in procs of the current handle (0 = none)
    \* ---- live-reload hub (need_hmr)
    isReadyHmr,    \* isReady of the HMR watcher
    clients,       \* the client list, in push order
    conn,          \* per websocket: "none", "upgraded", "open", "closed"
    inbox,         \* per websocket: the messages it received, in order
    waitTimeout,   \* handle of the send timeout (0 = undefined)
    batch,         \* observer of the current change batch
    \* ---- watch / build path (part_001)
    isReadyWatch,  \* isReady of the source watcher
    tmRebuild,     \* tmRebuild.tm (0 = undefined)
    tmEnd,         \* tmEnd.tm (0 = undefined)
    started,       \* the 'started' flag of __start/__done
    buildState,    \* bundler: "idle", "requested", "running"
    stats,         \* observer: counters of what the orchestrator did
    \* ---- static file server (x4build.mjs, serve_files)
    http,          \* the files on disk and the response to the last request
    net,           \* http_server, the servers made and bound, the listeners
    \* ---- build actions (both programs)
    pkg,           \* the x4build entry of package.json
    spawned,       \* the command lines handed to spawnSync so far
    lastRun        \* the spawnSync calls of the last runAction, as events

vars == <<args, net, pkg, spawned, lastRun, crashed, timers, nchanges, since,
          isReadyMon, updateTmo, procs, proc,
          isReadyHmr, clients, conn, inbox, waitTimeout, batch,
          isReadyWatch, tmRebuild, tmEnd, started, buildState, stats, http>>

monVars == <<isReadyMon, updateTmo, procs, proc>>
hmrVars == <<isReadyHmr, clients, conn, inbox, waitTimeout, batch>>
cmdVars == <<isReadyWatch, tmRebuild, tmEnd, started, buildState>>

----------------------------------------------------------------------------
\* Bounds of the model.
MaxChanges == 3
MaxClients == 2

\* Delays of the program's timeouts, in ms.
RestartDelay == 1000
wait == 2000
RebuildDelay == 1000
DoneDelay == 200

\* Steps by which time advances: x4build.mjs has timeouts of 1000 and 2000 ms,
\* part_001 has one of 200 ms as well.
Delays == {500, 1000}
CmdDelays == {200, 1000}

SinceCap == wait + 400

Min(a, b) == IF a < b THEN a ELSE b

----------------------------------------------------------------------------
\* Timeouts: setTimeout / clearTimeout.

Timeout(h, kind, rem, client, msg) ==
    [id |-> h, kind |-> kind, rem |-> rem, client |-> client, msg |-> msg]

\* Handles still remembered by the program (a handle stays in its variable
\* after its timeout ran).
Handles == {updateTmo, waitTimeout, tmRebuild, tmEnd} \ {0}

\* A handle never handed out while it is outstanding or remembered; `old' is
\* the handle the caller is about to overwrite.
FreshHandle(ts, old) ==
    LET used == {t.id : t \in ts} \cup (Handles \ {old})
    IN  CHOOSE h \in 1..(Cardinality(used) + 1) :
            /\ h \notin used
            /\ \A k \in 1..(h - 1) : k \in used

\* Mutant: cancelling one timeout cancels all of them.
clearTimeoutAll(ts, h) == {}

clearTimeout(ts, h) == {t \in ts : t.id # h}

Due(ts) == {t \in ts : t.rem = 0}

NoTimerDue == Due(timers) = {}

----------------------------------------------------------------------------
\* Command line of x4build.mjs.

Types == {"node", "electron", "html"}

is_node == args.type = "node"
is_electron == args.type = "electron"
monitor == args.monitor
need_hmr == args.hmr
serve_files == args.serve

\* if (is_node) { if (monitor) {...} } else { if (need_hmr) {...} ... }
MonitorOn == is_node /\ monitor
HmrOn == ~is_node /\ need_hmr

----------------------------------------------------------------------------
\* Build actions and bundler options (runAction is the same in both
\* programs).  Command lines are sequences of characters.

\* outdir = path.resolve(...): an absolute path.
outdir == <<"/", "o">>

\* const runningdir = path.resolve()
runningdir == <<"/">>

\* \w, over the characters the modelled command lines are made of.
NonWord == {"$", "{", "}", " ", "/", "@", "."}

IsWord(c) == c \notin NonWord

\* The i flag: letters compare by their lower case.
Lower(c) == CASE c = "S" -> "s" [] c = "D" -> "d" [] c = "O" -> "o"
              [] OTHER -> c

Contains(s, w) ==
    \E i \in 1..(Len(s) - Len(w) + 1) : SubSeq(s, i, i + Len(w) - 1) = w

\* The index of the closing brace when /\$\{\w*word\w*\}/i matches at i,
\* else 0.
MatchEnd(task, i, word) ==
    IF i + 1 <= Len(task) /\ task[i] = "$" /\ task[i + 1] = "{"
    THEN LET stops == {j \in (i + 2)..Len(task) : ~IsWord(task[j])}
             j == IF stops = {} THEN 0
                  ELSE CHOOSE k \in stops : \A m \in stops : k <= m
         IN  IF /\ j # 0 /\ task[j] = "}"
                /\ Contains([k \in 1..(j - i - 2) |-> Lower(task[i + 1 + k])],
                            word)
             THEN j ELSE 0
    ELSE 0

RECURSIVE replaceFrom(_, _, _, _)
replaceFrom(task, i, word, value) ==
    IF i > Len(task) THEN <<>>
    ELSE LET j == MatchEnd(task, i, word)
         IN  IF j # 0
             THEN value \o replaceFrom(task, j + 1, word, value)
             ELSE <<task[i]>> \o replaceFrom(task, i + 1, word, value)

\* task.replaceAll(/\$\{\w*word\w*\}/ig, value)
replaceAll(task, word, value) == replaceFrom(task, 1, word, value)

\* The value of an entry of the manifest: absent, one command line, or a
\* list of command lines.
Undefined == [kind |-> "undefined", v |-> <<>>]
Str(task) == [kind |-> "string", v |-> task]
Arr(tasks) == [kind |-> "array", v |-> tasks]

\* if (pkg?.x4build?.preBuild): undefined and "" are falsy, every array is
\* truthy.
Truthy(x) == x.kind = "array" \/ (x.kind = "string" /\ x.v # <<>>)

\* The exit statuses a command can end with.
ExitCodes == {0, 1}

\* spawnSync(task, {...}) returns when the child has exited: the child starts
\* and ends inside the call.  The result (ret) is never read.
spawnSync(log, task, status) ==
    log \o << <<"spawn", task>>, <<"exit", task, status>> >>

\* task = task.replaceAll(/\$\{\w*outdir\w*\}/ig, path.resolve(outdir));
\* task = task.replaceAll(/\$\{\w*srcdir\w*\}/ig, path.resolve(runningdir))
resolved(task) ==
    replaceAll(replaceAll(task, <<"o", "u", "t", "d", "i", "r">>, outdir),
               <<"s", "r", "c", "d", "i", "r">>, runningdir)

RECURSIVE forEachTask(_, _, _, _)
\* tasks.forEach(task => {...}) from index n on.
forEachTask(tasks, exits, n, log) ==
    IF n > Len(tasks) THEN log
    ELSE forEachTask(tasks, exits, n + 1,
                     spawnSync(log, resolved(tasks[n]), exits[n]))

RECURSIVE forEachTaskUntilFailure(_, _, _, _)
\* Mutant: the loop ends after the first command that fails.
forEachTaskUntilFailure(tasks, exits, n, log) ==
    IF n > Len(tasks) \/ (n > 1 /\ exits[n - 1] # 0) THEN log
    ELSE forEachTaskUntilFailure(tasks, exits, n + 1,
                                 spawnSync(log, resolved(tasks[n]), exits[n]))

\* let tasks = pkg.x4build[actionName];
\* if (!Array.isArray(tasks)) tasks = [tasks];
taskList(actionName) ==
    IF pkg[actionName].kind # "array" THEN <<pkg[actionName].v>>
    ELSE pkg[actionName].v

\* Mutant of runAction.
runActionUntilFailure(actionName, exits) ==
    forEachTaskUntilFailure(taskList(actionName), exits, 1, <<>>)

\* runAction(actionName): the events of the run, given the exit status of
\* each command.
runAction(actionName, exits) ==
    forEachTask(taskList(actionName), exits, 1, <<>>)

\* The statuses the commands of an action can end with, one per task.
Exits(actionName) == [1..Len(taskList(actionName)) -> ExitCodes]

\* The command lines of a run.
Cmds(log) == {log[i][2] : i \in 1..Len(log)}

\* if (pkg?.x4build?.[actionName]) { runAction(actionName) }
RunIfSet(actionName) ==
    IF Truthy(pkg[actionName])
    THEN \E exits \in Exits(actionName) :
            /\ lastRun' = runAction(actionName, exits)
            /\ spawned' = spawned \cup Cmds(lastRun')
    ELSE UNCHANGED <<spawned, lastRun>>

\* The string-valued options of esbuild.context({...}).
contextOptions ==
    [logLevel |-> "warning",
     target |-> IF is_node \/ is_electron THEN "node18" ELSE "esnext",
     charset |-> "utf8",
     legalComments |-> "none",
     platform |-> IF is_node \/ is_electron THEN "node" ELSE "browser",
     format |-> "iife"]

\* A package.json without build actions and without override.
NoManifest == [preBuild |-> Undefined, postBuild |-> Undefined,
               override |-> {}]

\* Post-build command lines the model draws from.
CopyOut == <<"c", "p", " ", "$", "{", "s", "r", "c", "d", "i", "r", "}", "/", "a", " ", "$", "{", "o", "u", "t", "d", "i", "r", "}", "/", "a">>
CopyDst == <<"c", "p", " ", "$", "{", "s", "r", "c", "d", "i", "r", "}", "/", "a", " ", "$", "{", "d", "s", "t", "d", "i", "r", "}", "/", "a">>
EchoDirs == <<"e", "c", "h", "o", " ", "$", "{", "S", "r", "c", "D", "i", "r", "}", " ", "$", "{", "m", "y", "_", "o", "u", "t", "d", "i", "r", "1", "}">>

\* The package.json files the model draws from; override is a set of
\* <<option, value>> pairs.
Manifests ==
    { NoManifest,
      [preBuild |-> Undefined, postBuild |-> Arr(<<CopyOut>>),
       override |-> {<<"legalComments", "inline">>}],
      [preBuild |-> Arr(<<EchoDirs>>), postBuild |-> Arr(<<CopyDst, EchoDirs>>),
       override |-> {}],
      [preBuild |-> Str(CopyOut), postBuild |-> Str(EchoDirs),
       override |-> {<<"format", "esm">>, <<"charset", "ascii">>}] }

----------------------------------------------------------------------------
\* Process monitor (x4build.mjs).

\* spawn("node", [monitor]): a new child; __destroyed is not set.
\*   alive     the child has not terminated (environment)
\*   destroyed proc.__destroyed
\*   reported  observer: its exit/error handler has run
\*   sigterm   observer: number of process.kill(pid, "SIGTERM") requests
\*   late      observer: its handler ran after it had been replaced
NewProc == [alive |-> TRUE, destroyed |-> FALSE, reported |-> FALSE,
            sigterm |-> 0, late |-> FALSE]

startProcess(ps) == Append(ps, NewProc)

\* Mutant: the handler writes the flag of the current handle instead of the
\* handle it was registered on.
onProcEventOuter(ps, self, cur) == [ps EXCEPT ![cur].destroyed = TRUE]

\* proc.on("exit"|"error", ...): proc is the local of startProcess.
onProcEvent(ps, self, cur) == [ps EXCEPT ![self].destroyed = TRUE]

\* if (updateTmo) clearTimeout(updateTmo); updateTmo = setTimeout(..., 1000)
armRestart(ts, old) ==
    LET cleared == IF old # 0 THEN clearTimeout(ts, old) ELSE ts
        h == FreshHandle(cleared, old)
    IN  [ts |-> cleared \cup {Timeout(h, "restart", RestartDelay, 0, "")},
         h |-> h]

\* Mutant: handleChange does not test isReady.
MonHandleChangeUnguarded ==
    LET a == armRestart(timers, updateTmo)
    IN  timers' = a.ts /\ updateTmo' = a.h

\* handleChange of the monitor watcher.
MonHandleChange ==
    IF ~isReadyMon
    THEN UNCHANGED <<timers, updateTmo>>
    ELSE LET a == armRestart(timers, updateTmo)
         IN  timers' = a.ts /\ updateTmo' = a.h

\* process.kill(pid, "SIGTERM") on a child that is gone but whose exit has
\* not been delivered yet: the signal is accepted (a zombie) or the call
\* throws ESRCH, depending on the platform.
KillOutcomes(p) == IF p.alive THEN {"sent"} ELSE {"sent", "ESRCH"}

\* Mutant: the restart callback signals the handle whatever its flag says.
mustKillAlways(p) == TRUE

\* if (!proc.__destroyed)
mustKill(p) == ~p.destroyed

\* The timeout callback of handleChange.
RestartFire(t) ==
    /\ ~crashed
    /\ t \in Due(timers) /\ t.kind = "restart"
    /\ IF mustKill(procs[proc])
       THEN \E r \in KillOutcomes(procs[proc]) :
              LET killed == [procs EXCEPT ![proc].sigterm = @ + 1]
              IN  IF r = "ESRCH"
                  THEN /\ crashed' = TRUE
                       /\ timers' = {}
                       /\ procs' = killed
                       /\ proc' = proc
                  ELSE /\ crashed' = crashed
                       /\ timers' = timers \ {t}
                       /\ procs' = startProcess(killed)
                       /\ proc' = Len(procs) + 1
       ELSE /\ crashed' = crashed
            /\ timers' = timers \ {t}
            /\ procs' = startProcess(procs)
            /\ proc' = Len(procs) + 1
    /\ UNCHANGED <<args, net, pkg, spawned, lastRun, http, nchanges, since, isReadyMon, updateTmo>>
    /\ UNCHANGED hmrVars /\ UNCHANGED cmdVars /\ UNCHANGED stats

\* The child terminates: on its own, or after a signal.
ProcDie(i) ==
    /\ ~crashed
    /\ i \in 1..Len(procs) /\ procs[i].alive
    /\ procs' = [procs EXCEPT ![i].alive = FALSE]
    /\ UNCHANGED <<args, net, pkg, spawned, lastRun, http, crashed, timers, nchanges, since,
                   isReadyMon, updateTmo, proc>>
    /\ UNCHANGED hmrVars /\ UNCHANGED cmdVars /\ UNCHANGED stats

\* The "exit" or "error" event of child i is delivered.
ProcEvent(i) ==
    /\ ~crashed /\ NoTimerDue
    /\ i \in 1..Len(procs) /\ ~procs[i].alive /\ ~procs[i].reported
    /\ LET ps == onProcEvent(procs, i, proc)
       IN  procs' = [ps EXCEPT ![i].reported = TRUE, ![i].late = (i # proc)]
    /\ UNCHANGED <<args, net, pkg, spawned, lastRun, http, crashed, timers, nchanges, since,
                   isReadyMon, updateTmo, proc>>
    /\ UNCHANGED hmrVars /\ UNCHANGED cmdVars /\ UNCHANGED stats

\* watcher.on("ready")
MonReady ==
    /\ ~crashed /\ NoTimerDue
    /\ MonitorOn /\ ~isReadyMon
    /\ isReadyMon' = TRUE
    /\ UNCHANGED <<args, net, pkg, spawned, lastRun, http, crashed, timers, nchanges, since,
                   updateTmo, procs, proc>>
    /\ UNCHANGED hmrVars /\ UNCHANGED cmdVars /\ UNCHANGED stats

----------------------------------------------------------------------------
\* Paths are sequences of characters.

RECURSIVE LastIndexOf(_, _)
\* Index of the last occurrence of character c in p, 0 if there is none.
LastIndexOf(p, c) ==
    IF p = <<>> THEN 0
    ELSE IF p[Len(p)] = c THEN Len(p)
    ELSE LastIndexOf(SubSeq(p, 1, Len(p) - 1), c)

\* The last portion of a path.
basename(p) == SubSeq(p, LastIndexOf(p, "/") + 1, Len(p))

\* path.extname: from the last "." of the last portion to the end; empty
\* when there is no "." or the only "." is the first character.
extname(p) ==
    LET b == basename(p)
        i == LastIndexOf(b, ".")
    IN  IF i <= 1 \/ b = <<".", ".">> THEN <<>> ELSE SubSeq(b, i, Len(b))

EndsWith(p, suffix) ==
    /\ Len(p) >= Len(suffix)
    /\ SubSeq(p, Len(p) - Len(suffix) + 1, Len(p)) = suffix

\* ignored: [ /.*\.map$/ ]
Ignored(p) == EndsWith(p, <<".", "m", "a", "p">>)

\* [".css", ".jpg", ".png", ".svg", ".ttf", ".otf"]
CssExts == { <<".", "c", "s", "s">>, <<".", "j", "p", "g">>,
             <<".", "p", "n", "g">>, <<".", "s", "v", "g">>,
             <<".", "t", "t", "f">>, <<".", "o", "t", "f">> }

\* Mutant: only style sheets count as cosmetic.
cssChangeOnlyCss(p) == extname(p) = <<".", "c", "s", "s">>

\* let cssChange = [...].indexOf(path.extname(changePath)) >= 0
cssChange(p) == extname(p) \in CssExts

\* Paths of the change events the model draws from (under outdir "o").
Paths == { <<"o", "/", "a", ".", "j", "s">>,
           <<"o", "/", "a", ".", "c", "s", "s">>,
           <<"o", "/", "i", ".", "p", "n", "g">>,
           <<"o", "/", "a", ".", "j", "s", ".", "m", "a", "p">>,
           <<"o", "/", ".", "c", "s", "s">>,
           <<"o", "/", "d">> }

----------------------------------------------------------------------------
\* Live-reload hub (x4build.mjs lines 472-550, part_001 lines 496-573).

Sockets == 1..MaxClients

\* Mutant: send keeps the timeouts of earlier requests (one per request).
sendNoClear(ts, old, client, msg) ==
    LET h == FreshHandle(ts, 0)
    IN  [ts |-> ts \cup {Timeout(h, "send", wait, client, msg)}, h |-> h]

\* const send = (client, ...args) => { if (waitTimeout) clearTimeout(...);
\*                                     waitTimeout = setTimeout(..., wait) }
send(ts, old, client, msg) ==
    LET cleared == IF old # 0 THEN clearTimeout(ts, old) ELSE ts
        h == FreshHandle(cleared, old)
    IN  [ts |-> cleared \cup {Timeout(h, "send", wait, client, msg)}, h |-> h]

RECURSIVE forEachSend(_, _, _, _)
\* clients.forEach((c) => send(c, msg)), in list order.
forEachSend(cs, ts, old, msg) ==
    IF cs = <<>> THEN [ts |-> ts, h |-> old]
    ELSE LET r == send(ts, old, Head(cs), msg)
         IN  forEachSend(Tail(cs), r.ts, r.h, msg)

BatchMsgs == {"reload", "refreshcss"}

\* The websocket opens (or fails) in the turn that follows its upgrade
\* (process.nextTick), before any timeout or I/O callback runs.
NoOpenPending == \A c \in Sockets : conn[c] # "upgraded"

\* A change batch: the change events that follow each other by less than
\* `wait'.  The observer `batch' records, for the current batch:
\*   seen    it has an event,     allCss  every path so far was cosmetic
\*   recv    per socket, the reload/refreshcss messages received
\*   clean   no socket was upgraded, opened or closed since it began
\*   joined  a socket opened while its broadcast was pending
\*   members the sockets open when it began or opened during its window
\*   kept    the client list as it would be had no open client closed while
\*           the batch's broadcast was pending
NoBatch == [seen |-> FALSE, allCss |-> TRUE, recv |-> [c \in Sockets |-> 0],
            clean |-> TRUE, joined |-> FALSE, members |-> {}, kept |-> <<>>]

OpenClients == {c \in Sockets : conn[c] = "open"}

BatchOpen == batch.seen /\ since < wait

\* The quiet window of the current batch is over and its callbacks ran.
BatchComplete == batch.seen /\ since >= wait /\ NoTimerDue

\* Mutant: a change that is not cosmetic is announced as 'connected'.
HmrHandleChangeHello(p) ==
    IF ~isReadyHmr
    THEN UNCHANGED <<timers, waitTimeout, batch>>
    ELSE LET r == forEachSend(clients, timers, waitTimeout,
                              IF cssChange(p) THEN "refreshcss" ELSE "connected")
         IN  /\ timers' = r.ts
             /\ waitTimeout' = r.h
             /\ batch' = IF BatchOpen
                         THEN [batch EXCEPT !.allCss = @ /\ cssChange(p)]
                         ELSE [NoBatch EXCEPT !.seen = TRUE,
                                              !.allCss = cssChange(p),
                                              !.members = OpenClients,
                                              !.kept = clients]

\* handleChange of the HMR watcher.
HmrHandleChange(p) ==
    IF ~isReadyHmr
    THEN UNCHANGED <<timers, waitTimeout, batch>>
    ELSE LET r == forEachSend(clients, timers, waitTimeout,
                              IF cssChange(p) THEN "refreshcss" ELSE "reload")
         IN  /\ timers' = r.ts
             /\ waitTimeout' = r.h
             /\ batch' = IF BatchOpen
                         THEN [batch EXCEPT !.allCss = @ /\ cssChange(p)]
                         ELSE [NoBatch EXCEPT !.seen = TRUE,
                                              !.allCss = cssChange(p),
                                              !.members = OpenClients,
                                              !.kept = clients]

\* server 'upgrade' listener: new WS.WebSocket(...); clients.push(ws)
Upgrade(c) ==
    /\ ~crashed /\ NoTimerDue /\ NoOpenPending
    /\ HmrOn /\ conn[c] = "none"
    /\ conn' = [conn EXCEPT ![c] = "upgraded"]
    /\ clients' = Append(clients, c)
    /\ batch' = [batch EXCEPT !.clean = FALSE,
                              !.kept = IF BatchOpen THEN Append(@, c) ELSE @]
    /\ UNCHANGED <<args, net, pkg, spawned, lastRun, http, crashed, timers, nchanges, since,
                   isReadyHmr, inbox, waitTimeout>>
    /\ UNCHANGED monVars /\ UNCHANGED cmdVars /\ UNCHANGED stats

\* ws.onopen = () => send(ws, 'connected')
OnOpen(c) ==
    /\ ~crashed
    /\ conn[c] = "upgraded"
    /\ conn' = [conn EXCEPT ![c] = "open"]
    /\ LET r == send(timers, waitTimeout, c, "connected")
       IN  timers' = r.ts /\ waitTimeout' = r.h
    /\ batch' = [batch EXCEPT !.clean = FALSE,
                              !.joined = @ \/ (BatchOpen /\
                                   \E t \in timers : t.msg \in BatchMsgs),
                              !.members = IF BatchOpen THEN @ \cup {c} ELSE @]
    /\ UNCHANGED <<args, net, pkg, spawned, lastRun, http, crashed, nchanges, since,
                   isReadyHmr, clients, inbox>>
    /\ UNCHANGED monVars /\ UNCHANGED cmdVars /\ UNCHANGED stats

\* Mutant: the close handler drops the oldest client of the list.
OnCloseOldest(c) ==
    /\ ~crashed
    /\ conn[c] = "upgraded" \/ (conn[c] = "open" /\ NoTimerDue /\ NoOpenPending)
    /\ conn' = [conn EXCEPT ![c] = "closed"]
    /\ clients' = IF clients = <<>> THEN clients ELSE Tail(clients)
    /\ batch' = [batch EXCEPT
                    !.clean = FALSE,
                    !.kept = IF /\ BatchOpen /\ conn[c] = "open"
                                /\ \E t \in timers : t.msg \in BatchMsgs
                             THEN @ ELSE SelectSeq(@, LAMBDA x : x # c)]
    /\ UNCHANGED <<args, net, pkg, spawned, lastRun, http, crashed, timers, nchanges, since,
                   isReadyHmr, inbox, waitTimeout>>
    /\ UNCHANGED monVars /\ UNCHANGED cmdVars /\ UNCHANGED stats

\* ws.onclose = () => clients = clients.filter(x => x !== ws)
OnClose(c) ==
    /\ ~crashed
    /\ conn[c] = "upgraded" \/ (conn[c] = "open" /\ NoTimerDue /\ NoOpenPending)
    /\ conn' = [conn EXCEPT ![c] = "closed"]
    /\ clients' = SelectSeq(clients, LAMBDA x : x # c)
    /\ batch' = [batch EXCEPT
                    !.clean = FALSE,
                    !.kept = IF /\ BatchOpen /\ conn[c] = "open"
                                /\ \E t \in timers : t.msg \in BatchMsgs
                             THEN @ ELSE SelectSeq(@, LAMBDA x : x # c)]
    /\ UNCHANGED <<args, net, pkg, spawned, lastRun, http, crashed, timers, nchanges, since,
                   isReadyHmr, inbox, waitTimeout>>
    /\ UNCHANGED monVars /\ UNCHANGED cmdVars /\ UNCHANGED stats

\* Mutant: the timeout callback sends its message to every open client.
SendFireAll(t) ==
    /\ ~crashed /\ NoOpenPending
    /\ t \in Due(timers) /\ t.kind = "send"
    /\ timers' = timers \ {t}
    /\ inbox' = [c \in Sockets |->
                    IF conn[c] = "open" THEN Append(inbox[c], t.msg)
                                        ELSE inbox[c]]
    /\ batch' = batch
    /\ UNCHANGED <<args, net, pkg, spawned, lastRun, http, crashed, nchanges, since,
                   isReadyHmr, clients, conn, waitTimeout>>
    /\ UNCHANGED monVars /\ UNCHANGED cmdVars /\ UNCHANGED stats

\* The timeout callback of send: client.send(...args).  A socket that is
\* not open delivers nothing.
SendFire(t) ==
    /\ ~crashed /\ NoOpenPending
    /\ t \in Due(timers) /\ t.kind = "send"
    /\ timers' = timers \ {t}
    /\ IF conn[t.client] = "open"
       THEN /\ inbox' = [inbox EXCEPT ![t.client] = Append(@, t.msg)]
            /\ batch' = IF t.msg \in BatchMsgs
                        THEN [batch EXCEPT !.recv[t.client] = @ + 1]
                        ELSE batch
       ELSE UNCHANGED <<inbox, batch>>
    /\ UNCHANGED <<args, net, pkg, spawned, lastRun, http, crashed, nchanges, since,
                   isReadyHmr, clients, conn, waitTimeout>>
    /\ UNCHANGED monVars /\ UNCHANGED cmdVars /\ UNCHANGED stats

\* watcher.on("ready")
HmrReady ==
    /\ ~crashed /\ NoTimerDue /\ NoOpenPending
    /\ HmrOn /\ ~isReadyHmr
    /\ isReadyHmr' = TRUE
    /\ UNCHANGED <<args, net, pkg, spawned, lastRun, http, crashed, timers, nchanges, since,
                   clients, conn, inbox, waitTimeout, batch>>
    /\ UNCHANGED monVars /\ UNCHANGED cmdVars /\ UNCHANGED stats

----------------------------------------------------------------------------
\* Static file server (x4build.mjs lines 553-633).


\* The files the model knows, inside and outside outdir.
FsPaths == { <<"/", "o", "/", "i", "n", "d", "e", "x", ".", "h", "t", "m", "l">>,
             <<"/", "o", "/", "a", ".", "j", "s">>,
             <<"/", "o", "/", "i", ".", "p", "n", "g">>,
             <<"/", "o", "/", "d">>,
             <<"/", "s", ".", "j", "s">> }

\* Directories that exist whatever the build does: outdir and its parent.
FixedDirs == { outdir, <<"/">> }

NoFile == [kind |-> "none", size |-> 0]

\* After the first build: the artifacts are in outdir, /o/d is a directory,
\* /s.js is a file beside outdir.
FsInit == [q \in FsPaths |->
             IF q = <<"/", "o", "/", "d">>
             THEN [kind |-> "dir", size |-> 0]
             ELSE [kind |-> "file", size |-> Len(q)]]

NoResponse == [url |-> <<>>, status |-> 0, headers |-> <<>>, heads |-> 0,
               ended |-> 0, body |-> <<>>, stream |-> "none"]

RECURSIVE Split(_, _)
\* The pieces of p between the separators of seps ("a//b" has three).
Split(p, seps) ==
    IF \A i \in 1..Len(p) : p[i] \notin seps THEN <<p>>
    ELSE LET i == CHOOSE k \in 1..Len(p) :
                     p[k] \in seps /\ \A j \in 1..(k - 1) : p[j] \notin seps
         IN  <<SubSeq(p, 1, i - 1)>> \o Split(SubSeq(p, i + 1, Len(p)), seps)

RECURSIVE Slashed(_)
\* The pieces, each preceded by "/".
Slashed(segs) ==
    IF segs = <<>> THEN <<>> ELSE <<"/">> \o Head(segs) \o Slashed(Tail(segs))

Pop(acc) == IF acc = <<>> THEN acc ELSE SubSeq(acc, 1, Len(acc) - 1)

Dot == { <<".">>, <<"%", "2", "e">>, <<"%", "2", "E">> }

IsSingleDot(sg) == sg \in Dot

IsDoubleDot(sg) == \E a \in Dot, b \in Dot : sg = a \o b

RECURSIVE UrlPath(_, _)
\* The path state of the URL parser: a single-dot segment is dropped, a
\* double-dot segment removes the segment before it; percent-encoded dots
\* count as dots, other escapes are left encoded.
UrlPath(segs, acc) ==
    IF segs = <<>> THEN acc
    ELSE LET sg == Head(segs)
             last == Len(segs) = 1
         IN  IF IsDoubleDot(sg)
             THEN UrlPath(Tail(segs),
                          IF last THEN Append(Pop(acc), <<>>) ELSE Pop(acc))
             ELSE IF IsSingleDot(sg)
             THEN UrlPath(Tail(segs), IF last THEN Append(acc, <<>>) ELSE acc)
             ELSE UrlPath(Tail(segs), Append(acc, sg))

\* new URL(req.url, "file://").pathname for a request target that begins
\* with one "/": the part before "?" or "#", "\\" read as "/", dot segments
\* removed.
pathname(u) ==
    LET path == Head(Split(u, {"?", "#"}))
        segs == Tail(Split(path, {"/", "\\"}))
    IN  Slashed(UrlPath(segs, <<>>))

HexDigits == {"0", "1", "2", "3", "4", "5", "6", "7", "8", "9",
              "a", "b", "c", "d", "e", "f", "A", "B", "C", "D", "E", "F"}

\* The characters of the escapes that decode on their own.
Unescaped == (<<"2", "F">> :> "/") @@ (<<"2", "f">> :> "/") @@
             (<<"2", "E">> :> ".") @@ (<<"2", "e">> :> ".") @@
             (<<"6", "1">> :> "a") @@ (<<"2", "5">> :> "%")

RECURSIVE decodeURIComponent(_)
\* decodeURIComponent: every %XX is replaced by its character; a "%" that
\* is not followed by two hex digits, or an escape that is no UTF-8 on its
\* own (%ff), throws URIError (ok = FALSE).
decodeURIComponent(p) ==
    IF p = <<>> THEN [ok |-> TRUE, val |-> <<>>]
    ELSE IF Head(p) # "%"
    THEN LET r == decodeURIComponent(Tail(p))
         IN  [ok |-> r.ok, val |-> <<Head(p)>> \o r.val]
    ELSE IF Len(p) < 3 \/ p[2] \notin HexDigits \/ p[3] \notin HexDigits
    THEN [ok |-> FALSE, val |-> <<>>]
    ELSE IF <<p[2], p[3]>> \notin DOMAIN Unescaped
    THEN [ok |-> FALSE, val |-> <<>>]
    ELSE LET r == decodeURIComponent(SubSeq(p, 4, Len(p)))
         IN  [ok |-> r.ok, val |-> <<Unescaped[<<p[2], p[3]>>]>> \o r.val]

RECURSIVE Normal(_, _)
\* path.normalize on the pieces of an absolute path: empty and "." pieces
\* are dropped, ".." removes the piece before it, if there is one.
Normal(segs, acc) ==
    IF segs = <<>> THEN acc
    ELSE LET sg == Head(segs)
         IN  IF sg = <<>> \/ sg = <<".">>
             THEN Normal(Tail(segs), acc)
             ELSE IF sg = <<".", ".">>
             THEN Normal(Tail(segs), Pop(acc))
             ELSE Normal(Tail(segs), Append(acc, sg))

\* path.join(a, b) == path.normalize(a + "/" + b), a absolute (posix); a
\* trailing "/" is kept.
join(a, b) ==
    LET p == a \o <<"/">> \o b
        segs == Normal(Split(p, {"/"}), <<>>)
    IN  IF segs = <<>> THEN <<"/">>
        ELSE IF p[Len(p)] = "/" THEN Slashed(segs) \o <<"/">>
        ELSE Slashed(segs)

\* Mutant: a directory passes for a regular file.
statSyncAnyKind(fs, p) ==
    LET q == IF Len(p) > 1 /\ p[Len(p)] = "/"
             THEN SubSeq(p, 1, Len(p) - 1) ELSE p
        e == IF q \in DOMAIN fs THEN fs[q]
             ELSE IF q \in FixedDirs THEN [kind |-> "dir", size |-> 0]
             ELSE NoFile
    IN  IF e.kind = "dir" THEN [kind |-> "file", size |-> 0] ELSE e

\* fs.statSync(p): kind "none" stands for the throw (ENOENT, or ENOTDIR for
\* a file named with a trailing "/").
statSync(fs, p) ==
    LET q == IF Len(p) > 1 /\ p[Len(p)] = "/"
             THEN SubSeq(p, 1, Len(p) - 1) ELSE p
        e == IF q \in DOMAIN fs THEN fs[q]
             ELSE IF q \in FixedDirs THEN [kind |-> "dir", size |-> 0]
             ELSE NoFile
    IN  IF e.kind = "file" /\ q # p THEN NoFile ELSE e

mimes == (<<".", "h", "t", "m">> :> "text/html") @@
         (<<".", "h", "t", "m", "l">> :> "text/html") @@
         (<<".", "c", "s", "s">> :> "text/css") @@
         (<<".", "j", "s">> :> "application/javascript") @@
         (<<".", "j", "s", "o", "n">> :> "application/json")

\* Mutant: a file of an unlisted type is served as text/html.
headersDefaultType(stat, ext) ==
    [ContentLength |-> stat.size,
     ContentType |-> IF ext \in DOMAIN mimes THEN mimes[ext] ELSE "text/html"]

\* let headers = {'Content-Length': stat.size};
\* if (mimes[ext]) headers['Content-Type'] = mimes[ext]
headers(stat, ext) ==
    IF ext \in DOMAIN mimes
    THEN [ContentLength |-> stat.size, ContentType |-> mimes[ext]]
    ELSE [ContentLength |-> stat.size]

\* Request targets the model draws from.
Requests == { <<"/">>,
              <<"/", "a", ".", "j", "s">>,
              <<"/", "a", ".", "j", "s", "?", "v">>,
              <<"/", "i", ".", "p", "n", "g">>,
              <<"/", "d">>,
              <<"/", "d", "/">>,
              <<"/", "x">>,
              <<"/", ".", ".", "/", "s", ".", "j", "s">>,
              <<"/", "%", "2", "e", "%", "2", "e", "/", "s", ".", "j", "s">>,
              <<"/", ".", ".", "%", "2", "F", "s", ".", "j", "s">>,
              <<"/", "%", "6", "1", ".", "j", "s">>,
              <<"/", "%">>,
              <<"/", "%", "f", "f">>,
              <<"/", "a", ".", "j", "s", "/">> }

\* Mutant: the server is installed for every project that is not node.
ServerOnNotNode == ~is_node /\ serve_files

\* else { ... if (serve_files && !is_electron) {...} }
ServerOn == ~is_node /\ serve_files /\ ~is_electron

\* srv 'request' listener: run() up to its end; the read stream opens later.
\* An exception thrown before the try block rejects run()'s promise, the
\* catch callback throws it again and nothing handles that rejection: no
\* response is written, and the runtime ends the process or only warns.
\* The model follows one response at a time.
Request(u, fatal) ==
    /\ ~crashed /\ NoTimerDue /\ NoOpenPending
    /\ ServerOn /\ http.res.stream # "pending"
    /\ LET d == decodeURIComponent(pathname(u))
       IN  IF ~d.ok
           THEN /\ crashed' = fatal
                /\ timers' = IF fatal THEN {} ELSE timers
                /\ http' = [http EXCEPT !.res = [NoResponse EXCEPT !.url = u]]
           ELSE LET relativePath == IF d.val = <<"/">>
                                    THEN <<"/", "i", "n", "d", "e", "x", ".", "h", "t", "m", "l">>
                                    ELSE d.val
                    absolutePath == join(outdir, relativePath)
                    stat == statSync(http.fs, absolutePath)
                IN  /\ crashed' = crashed
                    /\ timers' = timers
                    /\ http' = [http EXCEPT !.res =
                          IF stat.kind = "file"
                          THEN [url |-> u, status |-> 200,
                                headers |-> headers(stat,
                                                    extname(absolutePath)),
                                heads |-> 1, ended |-> 0,
                                body |-> absolutePath, stream |-> "pending"]
                          ELSE [url |-> u, status |-> 404, headers |-> <<>>,
                                heads |-> 0, ended |-> 1,
                                body |-> <<>>, stream |-> "none"]]
    /\ stats' = [stats EXCEPT
                    !.stale = FALSE,
                    !.again = /\ http.res.url = u /\ http.res.status = 200
                              /\ http.res.stream = "piped"
                              /\ ~stats.stale /\ ~stats.lastOk]
    /\ UNCHANGED <<args, net, pkg, spawned, lastRun, nchanges, since>>
    /\ UNCHANGED monVars /\ UNCHANGED hmrVars /\ UNCHANGED cmdVars

\* fs.createReadStream(absolutePath).pipe(res): the stream opens the file and
\* the response ends with it; when the file is gone by then the stream emits
\* 'error', which has no listener.
StreamOpen ==
    /\ ~crashed /\ NoTimerDue /\ NoOpenPending
    /\ http.res.stream = "pending"
    /\ IF statSync(http.fs, http.res.body).kind = "file"
       THEN /\ http' = [http EXCEPT !.res.stream = "piped", !.res.ended = 1]
            /\ UNCHANGED <<crashed, timers>>
       ELSE /\ http' = [http EXCEPT !.res.stream = "error"]
            /\ crashed' = TRUE
            /\ timers' = {}
    /\ UNCHANGED <<args, net, pkg, spawned, lastRun, nchanges, since, stats>>
    /\ UNCHANGED monVars /\ UNCHANGED hmrVars /\ UNCHANGED cmdVars

\* What a path can be: nothing, a directory, a file (of a size that
\* differs from path to path).
FsEntries(q) == {NoFile, [kind |-> "dir", size |-> 0],
                 [kind |-> "file", size |-> Len(q)]}

\* A file or directory is written or removed (the bundler, a post-build
\* command, anyone).
FsChange(q, e) ==
    /\ ~crashed /\ NoTimerDue /\ NoOpenPending
    /\ q \in FsPaths /\ e \in FsEntries(q) /\ http.fs[q] # e
    /\ http' = [http EXCEPT !.fs[q] = e]
    /\ stats' = [stats EXCEPT !.stale = TRUE]
    /\ UNCHANGED <<args, net, pkg, spawned, lastRun, crashed, timers, nchanges, since>>
    /\ UNCHANGED monVars /\ UNCHANGED hmrVars /\ UNCHANGED cmdVars

----------------------------------------------------------------------------
\* Time and the file system (environment).

Never == 0 - 1

\* d ms pass; no due timeout is skipped.
Advance(d) ==
    /\ ~crashed /\ NoOpenPending
    /\ \A t \in timers : t.rem >= d
    /\ timers # {} \/ (since # Never /\ since < SinceCap)
    /\ timers' = {[t EXCEPT !.rem = @ - d] : t \in timers}
    /\ since' = IF since = Never THEN Never ELSE Min(since + d, SinceCap)
    /\ UNCHANGED <<args, net, pkg, spawned, lastRun, http, crashed, nchanges>>
    /\ UNCHANGED monVars /\ UNCHANGED hmrVars /\ UNCHANGED cmdVars
    /\ UNCHANGED stats

\* Every watcher that was installed has signalled 'ready'.
WatchersReady == (MonitorOn => isReadyMon) /\ (HmrOn => isReadyHmr)

\* A file of the output directory changes (change, add, unlink, addDir,
\* unlinkDir): every installed watcher calls its handleChange(p).
OutdirChange(p) ==
    /\ ~crashed /\ NoTimerDue /\ NoOpenPending
    /\ nchanges < MaxChanges
    /\ nchanges' = nchanges + 1
    /\ IF is_node
       THEN /\ IF monitor THEN MonHandleChange
                          ELSE UNCHANGED <<timers, updateTmo>>
            /\ UNCHANGED <<waitTimeout, batch>>
       ELSE /\ IF need_hmr /\ ~Ignored(p) THEN HmrHandleChange(p)
                          ELSE UNCHANGED <<timers, waitTimeout, batch>>
            /\ UNCHANGED updateTmo
    /\ since' = IF WatchersReady /\ ~(HmrOn /\ Ignored(p)) THEN 0 ELSE since
    /\ UNCHANGED <<args, net, pkg, spawned, lastRun, http, crashed, isReadyMon, procs, proc,
                   isReadyHmr, clients, conn, inbox>>
    /\ UNCHANGED cmdVars /\ UNCHANGED stats

\* watcher.on("error", ...) of the monitor or HMR watcher: the error is
\* printed; the watcher is not closed and isReady is left as it is.
WatchError ==
    /\ ~crashed /\ NoTimerDue /\ NoOpenPending
    /\ MonitorOn \/ HmrOn
    /\ stats' = [stats EXCEPT !.werr = TRUE]
    /\ UNCHANGED <<args, net, pkg, spawned, lastRun, http, crashed, timers, nchanges, since>>
    /\ UNCHANGED monVars /\ UNCHANGED hmrVars /\ UNCHANGED cmdVars

----------------------------------------------------------------------------
\* x4build.mjs


\* Observer counters:
\*   seen      a source change was handled after 'ready'
\*   events    source changes handled in the current burst
\*   burst     ctx.rebuild() calls made by tmRebuild since the current burst
\*             of source changes began
\*   rebuilds  ctx.rebuild() calls made by tmRebuild in all
\*   pre, post runs of __start's body and of __done
\*   werr      a watcher has emitted 'error'
\*   lastOk    the build that ended last had no errors
\*   ends      builds that ended since __done ran last
\*   stale     an artifact was written or removed since the last response
\*   again     the last request repeated the target of a completed 200
\*             response, after a failed rebuild and with no artifact written
\*             in between
NoStats == [seen |-> FALSE, events |-> 0, burst |-> 0, rebuilds |-> 0,
            pre |-> 0, post |-> 0, werr |-> FALSE, lastOk |-> TRUE,
            ends |-> 0,
            stale |-> FALSE, again |-> FALSE]

\* const port = 9876; const host = '127.0.0.1'; let http_server = null;
\* Servers are numbered in the order http.createServer makes them; 0 is null.
\* made counts the servers created, bound holds <<server, host, port>> for
\* every listen call and on holds <<server, event>> for every listener.
port == 9876
host == "127.0.0.1"
NoServer == [http_server |-> 0, made |-> 0, bound |-> {}, on |-> {}]

\* Mutant: createServer makes and binds a server on every call.
createServerEveryCall(n) ==
    LET id == n.made + 1
    IN  [net |-> [n EXCEPT !.http_server = id, !.made = id,
                           !.bound = @ \cup {<<id, host, port>>}],
         ret |-> id]

\* function createServer(): the state after the call and the server returned.
createServer(n) ==
    IF n.http_server # 0
    THEN [net |-> n, ret |-> n.http_server]
    ELSE LET id == n.made + 1
         IN  [net |-> [n EXCEPT !.http_server = id, !.made = id,
                                !.bound = @ \cup {<<id, host, port>>}],
              ret |-> id]

\* const server = createServer(); server.addListener('upgrade', ...)
hmrServer(n) ==
    LET c == createServer(n)
    IN  [c.net EXCEPT !.on = @ \cup {<<c.ret, "upgrade">>}]

\* const srv = createServer(); srv.addListener("request", ...)
staticServer(n) ==
    LET c == createServer(n)
    IN  [c.net EXCEPT !.on = @ \cup {<<c.ret, "request">>}]

\* x4build.mjs: else { if (need_hmr) {...}  if (serve_files && !is_electron)
\* {...} } of if (is_node).
startServers ==
    LET n1 == IF HmrOn THEN hmrServer(NoServer) ELSE NoServer
    IN  IF ServerOn THEN staticServer(n1) ELSE n1

\* The argument lists the model starts from.
Configs == {a \in [type : Types, monitor : BOOLEAN, hmr : BOOLEAN,
                    serve : {FALSE}, watch : {FALSE}, run : {FALSE}] :
               ~(a.monitor /\ a.hmr)}

\* The state when the script has run to its end: the branches selected by
\* the arguments have installed their watcher, server and first child.
Start ==
    /\ crashed = FALSE
    /\ timers = {}
    /\ nchanges = 0
    /\ since = Never
    /\ isReadyMon = FALSE
    /\ updateTmo = 0
    /\ procs = IF MonitorOn THEN startProcess(<<>>) ELSE <<>>
    /\ proc = IF MonitorOn THEN 1 ELSE 0
    /\ isReadyHmr = FALSE
    /\ clients = <<>>
    /\ conn = [c \in Sockets |-> "none"]
    /\ inbox = [c \in Sockets |-> <<>>]
    /\ waitTimeout = 0
    /\ batch = NoBatch
    /\ isReadyWatch = FALSE
    /\ tmRebuild = 0
    /\ tmEnd = 0
    /\ started = FALSE
    /\ buildState = "idle"
    /\ stats = NoStats
    /\ http = [fs |-> FsInit, res |-> NoResponse]
    /\ net = startServers
    /\ \E pre \in Exits("preBuild"), post \in Exits("postBuild") :
          LET r1 == IF Truthy(pkg.preBuild) THEN runAction("preBuild", pre)
                    ELSE <<>>
              r2 == IF Truthy(pkg.postBuild) THEN runAction("postBuild", post)
                    ELSE <<>>
          IN  /\ spawned = Cmds(r1) \cup Cmds(r2)
              /\ lastRun = IF Truthy(pkg.postBuild) THEN r2 ELSE r1

Init == args \in Configs /\ pkg = NoManifest /\ Start

\* The is_node branch alone: the process monitor.
InitMon == Init /\ is_node

NextMon ==
    \/ \E d \in Delays : Advance(d)
    \/ \E p \in Paths : OutdirChange(p)
    \/ MonReady
    \/ \E t \in timers : RestartFire(t)
    \/ \E i \in 1..Len(procs) : ProcDie(i)
    \/ \E i \in 1..Len(procs) : ProcEvent(i)
    \/ WatchError

SpecMon == InitMon /\ [][NextMon]_vars

Next ==
    \/ NextMon
    \/ HmrReady
    \/ \E c \in Sockets : Upgrade(c)
    \/ \E c \in Sockets : OnOpen(c)
    \/ \E c \in Sockets : OnClose(c)
    \/ \E t \in timers : SendFire(t)

Spec == Init /\ [][Next]_vars

\* The static file server alone: x4build.mjs html serve.
SrvConfigs == [type : {"html"}, monitor : {FALSE}, hmr : {FALSE},
               serve : {TRUE}, watch : {FALSE}, run : {FALSE}]

InitSrv ==
    /\ args \in SrvConfigs
    /\ crashed = FALSE
    /\ timers = {}
    /\ nchanges = 0
    /\ since = Never
    /\ isReadyMon = FALSE
    /\ updateTmo = 0
    /\ procs = <<>>
    /\ proc = 0
    /\ isReadyHmr = FALSE
    /\ clients = <<>>
    /\ conn = [c \in Sockets |-> "none"]
    /\ inbox = [c \in Sockets |-> <<>>]
    /\ waitTimeout = 0
    /\ batch = NoBatch
    /\ isReadyWatch = FALSE
    /\ tmRebuild = 0
    /\ tmEnd = 0
    /\ started = FALSE
    /\ buildState = "idle"
    /\ stats = NoStats
    /\ http = [fs |-> FsInit, res |-> NoResponse]
    /\ net = startServers
    /\ pkg = NoManifest
    /\ spawned = {}
    /\ lastRun = <<>>

NextSrv ==
    \/ \E u \in Requests, fatal \in BOOLEAN : Request(u, fatal)
    \/ StreamOpen
    \/ \E q \in FsPaths : \E e \in FsEntries(q) : FsChange(q, e)

SpecSrv == InitSrv /\ [][NextSrv]_vars

\* Every combination of project type, monitor=, hmr and serve, with one
\* browser, children that keep running and two request targets.
ModeConfigs == [type : Types, monitor : BOOLEAN, hmr : BOOLEAN,
                serve : BOOLEAN, watch : {FALSE}, run : {FALSE}]

ModeRequests == { <<"/">>, <<"/", "x">> }

InitModes == args \in ModeConfigs /\ pkg = NoManifest /\ Start

NextModes ==
    \/ \E d \in Delays : Advance(d)
    \/ \E p \in Paths : OutdirChange(p)
    \/ MonReady
    \/ \E t \in timers : RestartFire(t)
    \/ HmrReady
    \/ Upgrade(1)
    \/ OnOpen(1)
    \/ \E t \in timers : SendFire(t)
    \/ \E u \in ModeRequests : Request(u, FALSE)
    \/ StreamOpen

SpecModes == InitModes /\ [][NextModes]_vars

\* The bundle the bundler writes: /o/a.js.
Bundle == <<"/", "o", "/", "a", ".", "j", "s">>

\* What a build can write there: the bundle as it was at start-up, or a
\* bundle one byte longer.
BundleEntries == {[kind |-> "file", size |-> Len(Bundle)],
                  [kind |-> "file", size |-> Len(Bundle) + 1]}

\* Mutant: a failed rebuild removes the bundle.
onRebuildCleans(fs, error, e) ==
    IF error THEN [fs EXCEPT ![Bundle] = NoFile]
             ELSE [fs EXCEPT ![Bundle] = e]

\* The output directory after a rebuild of the bundler's watch mode and
\* onRebuild(error, result): a failed build writes nothing and is logged; a
\* successful one has written the bundle e.
onRebuild(fs, error, e) ==
    IF error THEN fs
             ELSE [fs EXCEPT ![Bundle] = e]

\* watch: (watch || monitor) ? { onRebuild } : false.  A source file changes,
\* the bundler rebuilds and calls onRebuild.
Rebuild(error, e) ==
    /\ ~crashed /\ NoTimerDue /\ NoOpenPending
    /\ args.watch \/ monitor
    /\ nchanges < MaxChanges
    /\ nchanges' = nchanges + 1
    /\ e \in BundleEntries
    /\ http' = [http EXCEPT !.fs = onRebuild(http.fs, error, e)]
    /\ stats' = [stats EXCEPT !.lastOk = ~error,
                              !.stale = @ \/ ~error]
    /\ IF error THEN UNCHANGED <<spawned, lastRun>>
       ELSE RunIfSet("postBuild")
    /\ UNCHANGED <<args, net, pkg, crashed, timers, since>>
    /\ UNCHANGED monVars /\ UNCHANGED hmrVars /\ UNCHANGED cmdVars

\* x4build.mjs html serve watch: the static server next to the bundler's
\* watch mode.
ServeConfigs == [type : {"html"}, monitor : {FALSE}, hmr : {FALSE},
                 serve : {TRUE}, watch : {TRUE}, run : {FALSE}]

InitServe == args \in ServeConfigs /\ pkg = NoManifest /\ Start

NextServe ==
    \/ \E u \in Requests, fatal \in BOOLEAN : Request(u, fatal)
    \/ StreamOpen
    \/ \E error \in BOOLEAN, e \in BundleEntries : Rebuild(error, e)

SpecServe == InitServe /\ [][NextServe]_vars

----------------------------------------------------------------------------
\* Watch / build path of the commander version (part_001, build()).

\* program.command("build") declares --type, --release, --serve, --hmr,
\* --watch and --monitor: options.run is never set.
options == args

\* Mutant: Timer.start leaves the previous timeout running.
TimerStartNoClear(ts, tm, kind, tmo) ==
    LET h == FreshHandle(ts, 0)
    IN  [ts |-> ts \cup {Timeout(h, kind, tmo, 0, "")}, h |-> h]

\* class Timer { start(cb, tmo) { if (this.tm) clearTimeout(this.tm);
\*                                this.tm = setTimeout(cb, tmo) } }
TimerStart(ts, tm, kind, tmo) ==
    LET cleared == IF tm # 0 THEN clearTimeout(ts, tm) ELSE ts
        h == FreshHandle(cleared, tm)
    IN  [ts |-> cleared \cup {Timeout(h, kind, tmo, 0, "")}, h |-> h]

\* ctx.rebuild(): the bundler starts a build; a request made while a build is
\* in progress joins it, a request on a disposed context is dropped.
ctxRebuild(bs) == IF bs = "idle" THEN "requested" ELSE bs

\* watcher.on("ready") of the source watcher (installed under --watch).
WatchReady ==
    /\ ~crashed /\ NoTimerDue
    /\ options.watch /\ ~isReadyWatch
    /\ isReadyWatch' = TRUE
    /\ UNCHANGED <<args, net, pkg, spawned, lastRun, http, crashed, timers, nchanges, since,
                   tmRebuild, tmEnd, started, buildState, stats>>
    /\ UNCHANGED monVars /\ UNCHANGED hmrVars

\* A source file changes: handleChange of the source watcher
\* (ignored: [ /.*\.map$/ ]).
SrcChange(p) ==
    /\ ~crashed /\ NoTimerDue
    /\ options.watch
    /\ nchanges < MaxChanges
    /\ nchanges' = nchanges + 1
    /\ IF isReadyWatch /\ ~Ignored(p)
       THEN LET r == TimerStart(timers, tmRebuild, "rebuild", RebuildDelay)
            IN  /\ timers' = r.ts
                /\ tmRebuild' = r.h
                /\ stats' = [stats EXCEPT
                       !.seen = TRUE,
                       !.events = IF stats.seen /\ since < RebuildDelay
                                  THEN @ + 1 ELSE 1,
                       !.burst = IF stats.seen /\ since < RebuildDelay
                                 THEN @ ELSE 0]
                /\ since' = 0
       ELSE UNCHANGED <<timers, tmRebuild, stats, since>>
    /\ UNCHANGED <<args, net, pkg, spawned, lastRun, http, crashed, isReadyWatch, tmEnd, started, buildState>>
    /\ UNCHANGED monVars /\ UNCHANGED hmrVars

\* watcher.on("error", ...) of the source watcher: the error is logged.
SrcWatchError ==
    /\ ~crashed /\ NoTimerDue
    /\ options.watch
    /\ stats' = [stats EXCEPT !.werr = TRUE]
    /\ UNCHANGED <<args, net, pkg, spawned, lastRun, http, crashed, timers, nchanges, since>>
    /\ UNCHANGED monVars /\ UNCHANGED hmrVars /\ UNCHANGED cmdVars

\* The callback of tmRebuild: ctx.rebuild().
RebuildFire(t) ==
    /\ ~crashed
    /\ t \in Due(timers) /\ t.kind = "rebuild"
    /\ timers' = timers \ {t}
    /\ buildState' = ctxRebuild(buildState)
    /\ stats' = [stats EXCEPT !.burst = @ + 1, !.rebuilds = @ + 1]
    /\ UNCHANGED <<args, net, pkg, spawned, lastRun, http, crashed, nchanges, since,
                   isReadyWatch, tmRebuild, tmEnd, started>>
    /\ UNCHANGED monVars /\ UNCHANGED hmrVars

\* build.onStart(__start): the bundler begins the requested build.
BuildStart ==
    /\ ~crashed /\ NoTimerDue
    /\ buildState = "requested"
    /\ buildState' = "running"
    /\ IF started
       THEN UNCHANGED <<started, stats, spawned, lastRun>>
       ELSE /\ started' = TRUE
            /\ stats' = [stats EXCEPT !.pre = @ + 1]
            /\ RunIfSet("preBuild")
    /\ UNCHANGED <<args, net, pkg, http, crashed, timers, nchanges, since,
                   isReadyWatch, tmRebuild, tmEnd>>
    /\ UNCHANGED monVars /\ UNCHANGED hmrVars

\* Mutant: a build that ends while tmEnd is pending leaves its deadline.
BuildEndKeepsDeadline(ok, fatal) ==
    /\ ~crashed /\ NoTimerDue
    /\ buildState = "running"
    /\ stats' = [stats EXCEPT !.lastOk = ok,
                              !.ends = IF ~ok /\ fatal THEN @ ELSE @ + 1]
    /\ IF ~ok /\ fatal
       THEN /\ crashed' = TRUE
            /\ timers' = {}
            /\ UNCHANGED <<tmEnd, buildState>>
       ELSE LET r == IF \E t \in timers : t.kind = "done"
                     THEN [ts |-> timers, h |-> tmEnd]
                     ELSE TimerStart(timers, tmEnd, "done", DoneDelay)
            IN  /\ timers' = r.ts
                /\ tmEnd' = r.h
                /\ buildState' = "idle"
                /\ crashed' = crashed
    /\ UNCHANGED <<args, net, pkg, spawned, lastRun, http, nchanges, since, isReadyWatch, tmRebuild, started>>
    /\ UNCHANGED monVars /\ UNCHANGED hmrVars

\* build.onEnd: tmEnd.start(__done, 200), whatever the result.  When the
\* build failed, the promise of ctx.rebuild() rejects and nothing handles it:
\* the runtime ends the process, or only warns (older runtimes,
\* --unhandled-rejections=warn).
BuildEnd(ok, fatal) ==
    /\ ~crashed /\ NoTimerDue
    /\ buildState = "running"
    /\ stats' = [stats EXCEPT !.lastOk = ok,
                              !.ends = IF ~ok /\ fatal THEN @ ELSE @ + 1]
    /\ IF ~ok /\ fatal
       THEN /\ crashed' = TRUE
            /\ timers' = {}
            /\ UNCHANGED <<tmEnd, buildState>>
       ELSE LET r == TimerStart(timers, tmEnd, "done", DoneDelay)
            IN  /\ timers' = r.ts
                /\ tmEnd' = r.h
                /\ buildState' = "idle"
                /\ crashed' = crashed
    /\ UNCHANGED <<args, net, pkg, spawned, lastRun, http, nchanges, since, isReadyWatch, tmRebuild, started>>
    /\ UNCHANGED monVars /\ UNCHANGED hmrVars

\* The callback of tmEnd: __done().
DoneFire(t) ==
    /\ ~crashed
    /\ t \in Due(timers) /\ t.kind = "done"
    /\ RunIfSet("postBuild")
    /\ IF options.run
       THEN \* cache is not declared: ReferenceError, uncaught
            /\ crashed' = TRUE
            /\ timers' = {}
            /\ stats' = [stats EXCEPT !.post = @ + 1, !.ends = 0]
            /\ UNCHANGED <<started, buildState>>
       ELSE /\ crashed' = crashed
            /\ timers' = timers \ {t}
            /\ stats' = [stats EXCEPT !.post = @ + 1, !.ends = 0]
            /\ started' = FALSE
            /\ buildState' = IF ~options.watch /\ ~options.monitor
                             THEN "disposed" ELSE buildState
    /\ UNCHANGED <<args, net, pkg, http, nchanges, since,
                   isReadyWatch, tmRebuild, tmEnd>>
    /\ UNCHANGED monVars /\ UNCHANGED hmrVars

\* part_001: if (serve_files || need_hmr || watch) { if (need_hmr) {...}
\* if (serve_files && !is_electron) {...} }
cmdStartServers ==
    IF serve_files \/ need_hmr \/ options.watch
    THEN LET n1 == IF need_hmr THEN hmrServer(NoServer) ELSE NoServer
         IN  IF serve_files /\ ~is_electron THEN staticServer(n1) ELSE n1
    ELSE NoServer

\* The option sets the model starts from.
CmdConfigs == [type : {"node"}, monitor : BOOLEAN, hmr : {FALSE},
               serve : {FALSE}, watch : BOOLEAN, run : {FALSE}]

\* The state when build() returns: the watchers are installed and the first
\* ctx.rebuild() has been requested.
CmdStart ==
    /\ crashed = FALSE
    /\ timers = {}
    /\ nchanges = 0
    /\ since = Never
    /\ isReadyMon = FALSE
    /\ updateTmo = 0
    /\ procs = <<>>
    /\ proc = 0
    /\ isReadyHmr = FALSE
    /\ clients = <<>>
    /\ conn = [c \in Sockets |-> "none"]
    /\ inbox = [c \in Sockets |-> <<>>]
    /\ waitTimeout = 0
    /\ batch = NoBatch
    /\ isReadyWatch = FALSE
    /\ tmRebuild = 0
    /\ tmEnd = 0
    /\ started = FALSE
    /\ buildState = ctxRebuild("idle")
    /\ stats = NoStats
    /\ http = [fs |-> FsInit, res |-> NoResponse]
    /\ net = cmdStartServers
    /\ spawned = {}
    /\ lastRun = <<>>

InitCmd == args \in CmdConfigs /\ pkg = NoManifest /\ CmdStart

NextCmd ==
    \/ \E d \in CmdDelays : Advance(d)
    \/ \E p \in Paths : SrcChange(p)
    \/ WatchReady
    \/ \E t \in timers : RebuildFire(t)
    \/ BuildStart
    \/ \E ok \in BOOLEAN, fatal \in BOOLEAN : BuildEnd(ok, fatal)
    \/ \E t \in timers : DoneFire(t)
    \/ SrcWatchError

SpecCmd == InitCmd /\ [][NextCmd]_vars

\* part_001 under --watch, for each of the package.json files.
InitActions ==
    /\ args \in CmdConfigs /\ options.watch /\ ~options.monitor
    /\ pkg \in Manifests
    /\ CmdStart

SpecActions == InitActions /\ [][NextCmd]_vars

----------------------------------------------------------------------------
\* The watchers of both programs: x4build.mjs with its monitor or HMR watcher
\* (its argument lists have no watch), part_001 under --watch with its source
\* watcher.  Browsers connect in the order of their socket index and stay
\* connected.

InOrder(c) == \A k \in 1..(c - 1) : conn[k] # "none"

InitWatchers == Init \/ (InitCmd /\ options.watch /\ ~options.monitor)

NextWatchers ==
    \/ ~options.watch /\ NextMon
    \/ ~options.watch /\ HmrReady
    \/ \E c \in Sockets : ~options.watch /\ InOrder(c) /\ Upgrade(c)
    \/ \E c \in Sockets : ~options.watch /\ OnOpen(c)
    \/ \E t \in timers : ~options.watch /\ SendFire(t)
    \/ options.watch /\ NextCmd

SpecWatchers == InitWatchers /\ [][NextWatchers]_vars

----------------------------------------------------------------------------
\* part_001 under --hmr, with or without --watch: the build cycle (and the
\* source watcher) next to the live-reload hub, whose code is the one of
\* x4build.mjs except for handleChange, which also starts the display timer
\* tmDisp.

DispDelay == 300

\* tmDisp.tm, as far as clearTimeout can tell: the outstanding display
\* timeout, if any.
tmDisp(ts) == IF \E t \in ts : t.kind = "disp"
              THEN (CHOOSE t \in ts : t.kind = "disp").id
              ELSE 0

\* handleChange of part_001's HMR watcher.
CmdHmrHandleChange(p) ==
    IF ~isReadyHmr
    THEN UNCHANGED <<timers, waitTimeout>>
    ELSE LET r == forEachSend(clients, timers, waitTimeout,
                              IF cssChange(p) THEN "refreshcss" ELSE "reload")
             d == TimerStart(r.ts, tmDisp(r.ts), "disp", DispDelay)
         IN  /\ timers' = d.ts
             /\ waitTimeout' = r.h

\* A file of the output directory changes: part_001's HMR watcher
\* (ignored: [ /.*\.map$/ ]) calls handleChange(p).
CmdOutdirChange(p) ==
    /\ ~crashed /\ NoTimerDue /\ NoOpenPending
    /\ need_hmr
    /\ nchanges < MaxChanges
    /\ nchanges' = nchanges + 1
    /\ IF ~Ignored(p) THEN CmdHmrHandleChange(p)
                      ELSE UNCHANGED <<timers, waitTimeout>>
    /\ UNCHANGED <<args, net, pkg, spawned, lastRun, http, crashed, since, isReadyHmr, clients, conn,
                   inbox, batch>>
    /\ UNCHANGED monVars /\ UNCHANGED cmdVars /\ UNCHANGED stats

\* The callback of tmDisp: a log line.
DispFire(t) ==
    /\ ~crashed
    /\ t \in Due(timers) /\ t.kind = "disp"
    /\ timers' = timers \ {t}
    /\ UNCHANGED <<args, net, pkg, spawned, lastRun, http, crashed, nchanges, since, stats>>
    /\ UNCHANGED monVars /\ UNCHANGED hmrVars /\ UNCHANGED cmdVars

CmdHmrConfigs == [type : {"html"}, monitor : {FALSE}, hmr : {TRUE},
                  serve : {FALSE}, watch : BOOLEAN, run : {FALSE}]

\* Time passes until the next timeout is due.
CmdHmrDelays == {t.rem : t \in timers} \ {0}

InitCmdHmr == args \in CmdHmrConfigs /\ pkg = NoManifest /\ CmdStart

\* One browser connects and stays; a failed build only warns.

NextCmdHmr ==
    \/ \E d \in CmdHmrDelays : Advance(d)
    \/ \E p \in Paths : SrcChange(p)
    \/ WatchReady
    \/ \E t \in timers : RebuildFire(t)
    \/ BuildStart
    \/ \E ok \in BOOLEAN : BuildEnd(ok, FALSE)
    \/ \E t \in timers : DoneFire(t)
    \/ \E p \in Paths : CmdOutdirChange(p)
    \/ HmrReady
    \/ Upgrade(1)
    \/ OnOpen(1)
    \/ \E t \in timers : SendFire(t)
    \/ \E t \in timers : DispFire(t)

SpecCmdHmr == InitCmdHmr /\ [][NextCmdHmr]_vars

----------------------------------------------------------------------------
\* The live-reload hub alone: x4build.mjs html hmr, browsers that connect in
\* the order of their socket index and may close.
HubConfigs == [type : {"html"}, monitor : {FALSE}, hmr : {TRUE},
               serve : {FALSE}, watch : {FALSE}, run : {FALSE}]

InitHub == args \in HubConfigs /\ pkg = NoManifest /\ Start

NextHub ==
    \/ \E d \in Delays : Advance(d)
    \/ \E p \in Paths : OutdirChange(p)
    \/ HmrReady
    \/ \E c \in Sockets : InOrder(c) /\ Upgrade(c)
    \/ \E c \in Sockets : OnOpen(c)
    \/ \E c \in Sockets : OnClose(c)
    \/ \E t \in timers : SendFire(t)

SpecHub == InitHub /\ [][NextHub]_vars

----------------------------------------------------------------------------
\* Properties.

\* C1: a burst of source changes, each less than 1000 ms after the previous
\* one, makes tmRebuild call ctx.rebuild() exactly once: not before 1000 ms
\* have passed since the last change of the burst, and once they have.
C1_RebuildOncePerBurst ==
    stats.seen =>
        /\ stats.burst <= 1
        /\ since < RebuildDelay => stats.burst = 0
        /\ since > RebuildDelay => stats.burst = 1

\* A burst of three changes was answered by its one rebuild.
C1_Witness ==
    stats.events >= 3 /\ stats.burst = 1 /\ since = RebuildDelay /\ ~crashed

\* C2: when the quiet window of a batch is over, every open client that was
\* connected before or during the batch has received exactly one
\* reload/refreshcss for it, and no client ever has more than one 'connected'.
C2_OneMessagePerBatch ==
    /\ \A c \in Sockets :
          Len(SelectSeq(inbox[c], LAMBDA m : m = "connected")) <= 1
    /\ BatchComplete =>
          \A c \in OpenClients \cap batch.members : batch.recv[c] = 1

\* C3: with two or more clients open and no connection event during the
\* window, every one of them has received the batch's message once when the
\* window is over.
C3_FanOut ==
    (BatchComplete /\ batch.clean /\ Cardinality(OpenClients) >= 2) =>
        \A c \in OpenClients : batch.recv[c] = 1

\* C4: a connection that opens while a broadcast is pending does not lose
\* the batch's message: the clients connected before and the new one have
\* it when the window is over.
C4_JoinKeepsBroadcast ==
    (BatchComplete /\ batch.joined) =>
        \A c \in OpenClients \cap batch.members : batch.recv[c] >= 1

\* C5: the message delivered for a batch is 'refreshcss' exactly when every
\* path of the batch is cosmetic.
C5_BatchClassification ==
    [][\A t \in timers :
          (SendFire(t) /\ t.msg \in BatchMsgs /\ conn[t.client] = "open")
              => (t.msg = "refreshcss" <=> batch.allCss)]_vars

\* C6: the restart callback, run while the current process P1 is running,
\* spawns exactly one process that becomes the current one; the exit/error
\* event of a replaced process leaves the current handle, the current
\* process's record (its __destroyed flag) and the timeouts as they are and
\* spawns nothing.
C6_LateExitIsNoOp ==
    [][/\ \A t \in timers :
             (RestartFire(t) /\ procs[proc].alive) =>
                 /\ ~crashed'
                 /\ procs' = Append([procs EXCEPT ![proc].sigterm = @ + 1],
                                    NewProc)
                 /\ proc' = Len(procs) + 1
       /\ \A i \in 1..Len(procs) :
             (ProcEvent(i) /\ i # proc) =>
                 /\ proc' = proc
                 /\ procs'[proc] = procs[proc]
                 /\ Len(procs') = Len(procs)
                 /\ timers' = timers]_vars

\* P1 was signalled and replaced by P2, and P1's event arrived afterwards.
C6_Witness ==
    /\ Len(procs) = 2 /\ proc = 2
    /\ procs[1].sigterm = 1 /\ procs[1].late
    /\ procs[2].alive /\ ~procs[2].destroyed

\* C7: each run of the restart callback signals the current process exactly
\* when it has not reported exit or error, and spawns exactly one process.
C7_RestartStep ==
    [][\A t \in timers :
          RestartFire(t) =>
              /\ procs'[proc].sigterm =
                     procs[proc].sigterm +
                         (IF procs[proc].reported THEN 0 ELSE 1)
              /\ Len(procs') = Len(procs) + 1
              /\ proc' = Len(procs) + 1]_vars

C9_RestartPerDone ==
    [][\A t \in timers :
          (DoneFire(t) /\ options.monitor) =>
              (Len(procs') = Len(procs) + 1 /\ proc' = Len(procs) + 1)]_vars

\* C10: with type electron and monitor=<file>, once a change of the output
\* directory is more than 1000 ms old the process has been restarted.
C10_ElectronMonitor ==
    (is_electron /\ monitor /\ since # Never /\ since > RestartDelay) =>
        Len(procs) >= 2

\* C11: a change event delivered before the watcher's 'ready' leaves every
\* timeout, timer handle, process, inbox and the bundler as they are; and
\* while a watcher is not ready there is no restart timeout and one process
\* (monitor), no reload/refreshcss scheduled or received (HMR), no rebuild
\* timeout and no rebuild made by tmRebuild (source watch).
C11_PreReadySuppression ==
    /\ [](/\ (MonitorOn /\ ~isReadyMon) =>
                (Len(procs) = 1 /\ \A t \in timers : t.kind # "restart")
          /\ (HmrOn /\ ~isReadyHmr) =>
                /\ \A t \in timers : t.msg \notin BatchMsgs
                /\ \A c \in Sockets : \A k \in 1..Len(inbox[c]) :
                       inbox[c][k] \notin BatchMsgs
          /\ (options.watch /\ ~isReadyWatch) =>
                (stats.rebuilds = 0 /\ \A t \in timers : t.kind # "rebuild"))
    /\ [][/\ \A p \in Paths :
               (OutdirChange(p) /\ ~WatchersReady) =>
                   UNCHANGED <<timers, updateTmo, waitTimeout, procs, proc,
                               inbox, crashed>>
          /\ \A p \in Paths :
               (SrcChange(p) /\ ~isReadyWatch) =>
                   UNCHANGED <<timers, tmRebuild, tmEnd, buildState, stats,
                               crashed>>]_vars

\* Two changes came before the HMR watcher was ready, with a browser
\* connected: nothing is scheduled and the browser has its 'connected' only.
C11_Witness ==
    /\ HmrOn /\ ~isReadyHmr /\ nchanges >= 2
    /\ timers = {} /\ inbox[1] = <<"connected">>

\* C12: once a watcher has emitted 'error' the orchestrator keeps running and
\* a change event arms no restart timeout any more.
C12_NoAutoAfterWatchError ==
    [][/\ WatchError => ~crashed'
       /\ \A p \in Paths :
             (stats.werr /\ OutdirChange(p)) =>
                 UNCHANGED <<timers, updateTmo>>]_vars

\* C13: __done (the post-build actions and the restart) runs only when the
\* build that ended last had no errors.
C13_DoneOnSuccessOnly ==
    [][\A t \in timers : DoneFire(t) => stats.lastOk]_vars

\* C14: the end of a build, failed or not, leaves the orchestrator running.
C14_BuildFailureNotFatal ==
    [][\A ok \in BOOLEAN, fatal \in BOOLEAN :
          BuildEnd(ok, fatal) => ~crashed']_vars

\* C15: the file a response streams lies under the output root.
C15_Containment ==
    http.res.body # <<>> =>
        /\ Len(http.res.body) > Len(outdir) + 1
        /\ SubSeq(http.res.body, 1, Len(outdir) + 1) = outdir \o <<"/">>

\* C16: a request for a path that is a regular file is answered 200 with
\* Content-Length the size of the file and Content-Type text/html (.htm,
\* .html), text/css (.css), application/javascript (.js), application/json
\* (.json) or, for any other extension, no Content-Type; "/" is answered
\* with index.html.
C16_SuccessResponse ==
    [][\A u \in {http'.res.url} \cap Requests, fatal \in BOOLEAN :
          Request(u, fatal) =>
              LET res == http'.res
                  ext == extname(res.body)
                  typed == "ContentType" \in DOMAIN res.headers
              IN  /\ \A pq \in { <<<<"/">>, <<"/", "o", "/", "i", "n", "d", "e", "x", ".", "h", "t", "m", "l">>>>,
                                   <<<<"/", "a", ".", "j", "s">>, <<"/", "o", "/", "a", ".", "j", "s">>>>,
                                   <<<<"/", "a", ".", "j", "s", "?", "v">>, <<"/", "o", "/", "a", ".", "j", "s">>>>,
                                   <<<<"/", "i", ".", "p", "n", "g">>, <<"/", "o", "/", "i", ".", "p", "n", "g">>>>,
                                   <<<<"/", "d">>, <<"/", "o", "/", "d">>>> } :
                         (u = pq[1] /\ http.fs[pq[2]].kind = "file") =>
                             (res.status = 200 /\ res.body = pq[2])
                  /\ res.status = 200 =>
                         /\ res.heads = 1
                         /\ res.headers.ContentLength = http.fs[res.body].size
                         /\ ext \in {<<".", "h", "t", "m">>, <<".", "h", "t", "m", "l">>} =>
                                typed /\ res.headers.ContentType = "text/html"
                         /\ ext = <<".", "c", "s", "s">> =>
                                typed /\ res.headers.ContentType = "text/css"
                         /\ ext = <<".", "j", "s">> =>
                                typed /\ res.headers.ContentType =
                                             "application/javascript"
                         /\ ext = <<".", "j", "s", "o", "n">> =>
                                typed /\ res.headers.ContentType =
                                             "application/json"
                         /\ ext \notin {<<".", "h", "t", "m">>, <<".", "h", "t", "m", "l">>, <<".", "c", "s", "s">>, <<".", "j", "s">>, <<".", "j", "s", "o", "n">>}
                                => ~typed]_vars

\* A picture, whose extension is not in the table, was served with its
\* length and without Content-Type.
C16_Witness ==
    /\ http.res.url = <<"/", "i", ".", "p", "n", "g">>
    /\ http.res.status = 200 /\ http.res.stream = "piped"
    /\ http.res.body = <<"/", "o", "/", "i", ".", "p", "n", "g">>
    /\ DOMAIN http.res.headers = {"ContentLength"}
    /\ http.res.headers.ContentLength = Len(http.res.body)

\* C17: a request for a path that is missing, a directory or not a regular
\* file is answered once, with 404, no header written and no body; no
\* response is ended twice.
C17_FailureResponse ==
    /\ [](/\ http.res.ended <= 1 /\ http.res.heads <= 1
          /\ http.res.status = 404 =>
                /\ http.res.ended = 1 /\ http.res.heads = 0
                /\ http.res.body = <<>> /\ http.res.stream = "none")
    /\ [][\A u \in {http'.res.url} \cap Requests, fatal \in BOOLEAN :
             Request(u, fatal) =>
                 /\ \A pq \in { <<<<"/">>, <<"/", "o", "/", "i", "n", "d", "e", "x", ".", "h", "t", "m", "l">>>>,
                                  <<<<"/", "a", ".", "j", "s">>, <<"/", "o", "/", "a", ".", "j", "s">>>>,
                                  <<<<"/", "i", ".", "p", "n", "g">>, <<"/", "o", "/", "i", ".", "p", "n", "g">>>>,
                                  <<<<"/", "d">>, <<"/", "o", "/", "d">>>> } :
                        (u = pq[1] /\ http.fs[pq[2]].kind # "file") =>
                            http'.res.status = 404
                 /\ u \in {<<"/", "x">>, <<"/", "d", "/">>, <<"/", "a", ".", "j", "s", "/">>} =>
                        http'.res.status = 404]_vars

\* "/d" was requested while o/d is a directory: one 404.
C17_Witness ==
    /\ http.res.url = <<"/", "d">> /\ http.fs[<<"/", "o", "/", "d">>].kind = "dir"
    /\ http.res.status = 404 /\ http.res.ended = 1

\* C18: every request is answered (a request whose target cannot be decoded
\* with 404) and leaves the orchestrator running.
C18_RequestFailureIsolated ==
    [][\A u \in {http'.res.url} \cap Requests, fatal \in BOOLEAN :
          Request(u, fatal) =>
              (~crashed' /\ http'.res.status \in {200, 404})]_vars

\* C19: the send timeout never calls send on a client whose close event has
\* been handled.
C19_NoSendAfterClose ==
    [][\A t \in timers : SendFire(t) => conn[t.client] # "closed"]_vars

\* C20: a client that closes while a broadcast is pending changes nothing
\* for the others: a change event that follows in the same quiet window
\* schedules the batch's message for the same other clients as it would had
\* the client stayed in the list.
C20_RemovalKeepsOthers ==
    [][\A p \in Paths :
          (/\ OutdirChange(p) /\ ~Ignored(p) /\ BatchOpen
           /\ clients # <<>> /\ Len(batch.kept) = Len(clients) + 1) =>
              \A t \in timers' :
                  t.id = waitTimeout' =>
                      \A k \in 1..Len(clients) :
                          (t.client = clients[k]) <=>
                              (batch.kept[Len(batch.kept)] = clients[k])]_vars

\* C21: each concern has at most one outstanding timeout, the one its handle
\* variable names; a notify leaves the concern with exactly one timeout, with
\* the full delay to run.
C21_OneTimerPerConcern ==
    /\ [](\A t \in timers :
             /\ \A u \in timers : u.kind = t.kind => u = t
             /\ t.kind = "restart" => t.id = updateTmo
             /\ t.kind = "send" => t.id = waitTimeout
             /\ t.kind = "rebuild" => t.id = tmRebuild
             /\ t.kind = "done" => t.id = tmEnd)
    /\ [][LET Of(kind) == {t \in timers' : t.kind = kind}
          IN  /\ \A p \in Paths :
                    (MonitorOn /\ isReadyMon /\ OutdirChange(p)) =>
                        Of("restart") =
                            {Timeout(updateTmo', "restart", RestartDelay, 0, "")}
              /\ \A p \in Paths :
                    (/\ HmrOn /\ isReadyHmr /\ clients # <<>>
                     /\ ~Ignored(p) /\ OutdirChange(p)) =>
                        \E t \in timers' :
                            /\ Of("send") = {t}
                            /\ t.rem = wait /\ t.msg \in BatchMsgs
              /\ \A c \in Sockets :
                    (conn[c] = "upgraded" /\ OnOpen(c)) =>
                        Of("send") =
                            {Timeout(waitTimeout', "send", wait, c, "connected")}
              /\ \A p \in Paths :
                    (isReadyWatch /\ ~Ignored(p) /\ SrcChange(p)) =>
                        Of("rebuild") =
                            {Timeout(tmRebuild', "rebuild", RebuildDelay, 0, "")}
              /\ \A ok \in BOOLEAN :
                    (buildState = "running" /\ BuildEnd(ok, FALSE)) =>
                        Of("done") =
                            {Timeout(tmEnd', "done", DoneDelay, 0, "")}]_vars

\* A second source change of the same burst has just replaced the pending
\* rebuild timeout by one with the full 1000 ms.
C21_Witness ==
    /\ options.watch /\ stats.events >= 2 /\ since = 0
    /\ \E t \in timers :
          /\ timers = {t}
          /\ t.kind = "rebuild" /\ t.rem = RebuildDelay /\ t.id = tmRebuild

\* C22: a source change handled by the source watcher (re)arms tmRebuild
\* only: the reload timeout and the build-done timeout keep their handle,
\* their pending state and their remaining time.
C22_RebuildNotifyFrame ==
    [][\A p \in Paths :
          SrcChange(p) =>
              /\ waitTimeout' = waitTimeout
              /\ tmEnd' = tmEnd
              /\ {t \in timers' : t.kind # "rebuild"} =
                     {t \in timers : t.kind # "rebuild"}]_vars

\* A source change has just re-armed tmRebuild while a reload scheduled
\* earlier keeps running towards its own deadline.
C22_Witness ==
    /\ stats.events >= 2 /\ since = 0
    /\ \E t \in timers : t.kind = "rebuild" /\ t.rem = RebuildDelay
    /\ \E t \in timers :
          t.kind = "send" /\ t.msg \in BatchMsgs /\ t.rem < wait

\* C23: a browser only ever receives 'connected', 'reload' or 'refreshcss';
\* a 'connected' is scheduled only by the open handler of the socket it is
\* addressed to, and each delivery is the message of a due timeout addressed
\* to the receiving socket.
C23_MessageVocabulary ==
    /\ [](\A c \in Sockets : \A i \in 1..Len(inbox[c]) :
             /\ inbox[c][i] \in {"connected", "reload", "refreshcss"}
             /\ inbox[c][i] = "connected" => i = 1)
    /\ [][/\ \A t \in timers' :
                (/\ t.msg = "connected"
                 /\ ~\E u \in timers : /\ u.id = t.id /\ u.msg = t.msg
                                        /\ u.client = t.client) =>
                    /\ conn[t.client] = "upgraded"
                    /\ conn'[t.client] = "open"
                    /\ t.rem = wait
          /\ \A c \in Sockets :
                inbox'[c] # inbox[c] =>
                    \E t \in Due(timers) :
                        /\ t.client = c /\ conn[c] = "open"
                        /\ inbox'[c] = Append(inbox[c], t.msg)]_vars

\* The second browser was greeted after it opened and later told to reload;
\* the first one got a style refresh and never a greeting.
C23_Witness ==
    /\ inbox[2] = <<"connected", "reload">>
    /\ inbox[1] = <<"refreshcss">>

\* C24: there is one current handle, and next to the current instance at
\* most one other instance is alive: a superseded one that was sent SIGTERM
\* and has not exited yet.
C24_AtMostTwoAlive ==
    MonitorOn =>
        LET alive == {i \in 1..Len(procs) : procs[i].alive}
        IN  /\ proc \in 1..Len(procs)
            /\ Cardinality(alive) <= 2
            /\ \A i \in alive \ {proc} : procs[i].sigterm >= 1

C26_DisposeCancelsTimers ==
    [][(buildState # "disposed" /\ buildState' = "disposed") =>
           timers' = {}]_vars

\* C27: a failed rebuild writes and removes nothing, and a request that
\* repeats the target of a completed 200 response after a failed rebuild,
\* with no artifact written in between, is answered 200 with the same file,
\* the same length and the same type.
C27_FailedRebuildKeepsArtifacts ==
    [][/\ (nchanges' # nchanges /\ ~stats'.lastOk) => http' = http
       /\ \A u \in {http'.res.url} \cap Requests :
             (/\ Request(u, FALSE) \/ Request(u, TRUE)
              /\ stats'.again) =>
                 /\ http'.res.status = 200
                 /\ http'.res.body = http.res.body
                 /\ http'.res.headers = http.res.headers]_vars

\* The rewritten bundle was served, a rebuild failed, and the bundle has
\* been requested again.
C27_Witness ==
    /\ stats.again /\ ~stats.lastOk
    /\ http.res.status = 200 /\ http.res.stream = "piped"
    /\ http.res.body = Bundle
    /\ http.fs[Bundle].size = Len(Bundle) + 1

\* C28: no command line is run with a placeholder ${srcdir} or ${dstdir}
\* left in it.
C28_PlaceholdersReplaced ==
    \A c \in spawned :
        /\ ~Contains(c, <<"$", "{", "s", "r", "c", "d", "i", "r", "}">>)
        /\ ~Contains(c, <<"$", "{", "d", "s", "t", "d", "i", "r", "}">>)

\* C29: for every option named in the override bag, the bundler context was
\* created with the value the bag gives.
C29_OverrideApplied ==
    \A kv \in pkg.override : contextOptions[kv[1]] = kv[2]

\* C30: a restart timeout that runs when the current child is gone but its
\* exit has not been delivered starts exactly one new child, and the
\* orchestrator goes on.
C30_KillFailureIsolated ==
    [][\A t \in timers :
          (/\ RestartFire(t)
           /\ ~procs[proc].alive /\ ~procs[proc].reported) =>
              /\ ~crashed'
              /\ Len(procs') = Len(procs) + 1
              /\ proc' = Len(procs')
              /\ procs'[proc'].alive]_vars

\* C31: the hub has one send timeout.  A send request leaves exactly the
\* timeout of that request (for a broadcast: of its last client), whatever
\* was pending before, and an expiry delivers at most the one message of the
\* expired timeout, to its addressee only.
C31_LastSendWins ==
    /\ [](Cardinality({t \in timers : t.kind = "send"}) <= 1)
    /\ [][LET Sends == {t \in timers' : t.kind = "send"}
          IN  /\ \A c \in Sockets :
                    (conn[c] = "upgraded" /\ conn'[c] = "open") =>
                        Sends = {Timeout(waitTimeout', "send", wait, c,
                                         "connected")}
              /\ (/\ nchanges' # nchanges /\ isReadyHmr /\ clients # <<>>
                  /\ timers' # timers) =>
                     \E m \in BatchMsgs :
                        Sends = {Timeout(waitTimeout', "send", wait,
                                         clients[Len(clients)], m)}
              /\ \A t \in Due(timers) :
                    (t.kind = "send" /\ t \notin timers') =>
                        /\ \A c \in Sockets \ {t.client} :
                              inbox'[c] = inbox[c]
                        /\ inbox'[t.client] \in
                              {inbox[t.client],
                               Append(inbox[t.client], t.msg)}]_vars

\* Two browsers are open; the reload requested for both within one window
\* has reached the second one only.
C31_Witness ==
    /\ conn = [c \in Sockets |-> IF c <= 2 THEN "open" ELSE conn[c]]
    /\ inbox[1] = <<"connected">>
    /\ inbox[2] = <<"connected", "reload">>
    /\ timers = {} /\ nchanges = 1

\* C32: the client list holds exactly the sockets that were upgraded and
\* have not closed, each once; only an upgrade (append) and a close (removal
\* of the closing socket) change it, a change event never does.
C32_ClientSet ==
    /\ [](/\ {clients[i] : i \in 1..Len(clients)} =
               {c \in Sockets : conn[c] \in {"upgraded", "open"}}
           /\ \A i, j \in 1..Len(clients) :
                 clients[i] = clients[j] => i = j)
    /\ [][/\ clients' # clients =>
                \E c \in Sockets :
                    \/ /\ conn[c] = "none" /\ conn'[c] = "upgraded"
                       /\ clients' = Append(clients, c)
                    \/ /\ conn[c] # "closed" /\ conn'[c] = "closed"
                       /\ clients' = SelectSeq(clients, LAMBDA x : x # c)
          /\ nchanges' # nchanges => clients' = clients]_vars

\* The first browser has closed and the second one, still listed, has got
\* the reload of a later change.
C32_Witness ==
    /\ conn[1] = "closed" /\ conn[2] = "open"
    /\ clients = <<2>>
    /\ inbox[2] = <<"connected", "reload">>

\* C33: runs of __start's body and runs of __done alternate, beginning with
\* __start: the number of __done runs is the number of __start runs, or one
\* less.
C33_PrePostAlternate ==
    /\ stats.post <= stats.pre
    /\ stats.pre <= stats.post + 1

\* C34: a build that ends (re)arms the one build-done timeout with the full
\* 200 ms, whatever was pending; __done runs only for a timeout that has run
\* its full 200 ms since the last build end, once for all the builds that
\* ended since its previous run, and leaves no build-done timeout behind.
C34_DoneDebounce ==
    /\ [](/\ Cardinality({t \in timers : t.kind = "done"}) <= 1
           /\ (stats.ends > 0 /\ ~crashed) <=>
                 ({t \in timers : t.kind = "done"} # {}))
    /\ [][/\ (stats.ends' = stats.ends + 1) =>
                {t \in timers' : t.kind = "done"} =
                    {Timeout(tmEnd', "done", DoneDelay, 0, "")}
          /\ (stats.post' = stats.post + 1) =>
                /\ stats.ends >= 1
                /\ {t \in timers : t.kind = "done"} =
                      {Timeout(tmEnd, "done", 0, 0, "")}
                /\ {t \in timers' : t.kind = "done"} = {}
          /\ (\E t \in timers : t.kind = "done" /\ t.rem > 0) =>
                stats.post' = stats.post]_vars

\* Two builds ended less than 200 ms apart; the one build-done timeout,
\* re-armed by the second, is now due.
C34_Witness ==
    /\ stats.ends = 2 /\ ~crashed
    /\ \E t \in timers : t.kind = "done" /\ t.rem = 0

\* C35: tmRebuild's callback calls ctx.rebuild() only when no build that was
\* requested before is still waiting to start or running.
C35_NoOverlappingRebuild ==
    [][stats.rebuilds' # stats.rebuilds =>
           buildState \notin {"requested", "running"}]_vars

\* C36: what a handled change event does to the orchestrator does not depend
\* on its path: any other path the watcher does not ignore, and that gives the
\* current batch the same cosmetic/full classification, leads to the same
\* next state.
C36_NoEventPayload ==
    [][\A p, q \in Paths :
          (~Ignored(p) /\ ~Ignored(q)) =>
              /\ (/\ HmrOn =>
                        (IF BatchOpen THEN batch.allCss /\ cssChange(p)
                                      ELSE cssChange(p)) =
                        (IF BatchOpen THEN batch.allCss /\ cssChange(q)
                                      ELSE cssChange(q))
                  /\ OutdirChange(p)) => OutdirChange(q)
              /\ SrcChange(p) => SrcChange(q)]_vars

\* C37: createServer makes and binds one server (127.0.0.1:9876) at most once
\* in a session and returns that server on every later call: the upgrade
\* listener and the request listener are attached to one and the same server,
\* whichever of the two features asks for it first, and every websocket that
\* was upgraded and every response that was written went through it.
C37_SingleServer ==
    /\ net.made <= 1
    /\ net.bound \subseteq {<<net.http_server, "127.0.0.1", 9876>>}
    /\ \A l \in net.on : l[1] = net.http_server /\ net.http_server # 0
    /\ clients # <<>> => <<net.http_server, "upgrade">> \in net.on
    /\ http.res.url # <<>> => <<net.http_server, "request">> \in net.on
    /\ LET first == createServer(NoServer)
           later == createServer(first.net)
       IN  /\ later.ret = first.ret /\ later.net = first.net
           /\ first.net.made = 1
    /\ staticServer(hmrServer(NoServer)) = hmrServer(staticServer(NoServer))

\* Both features are on, a websocket was upgraded and a file was served.
C37_Witness ==
    /\ HmrOn /\ ServerOn
    /\ net.on = {<<1, "upgrade">>, <<1, "request">>}
    /\ clients = <<1>>
    /\ http.res.status = 200 /\ http.res.stream = "piped"

\* C38: runAction runs the commands of its list in list order, each one to
\* its end before the next one starts; a value that is not a list is run as
\* a list of one; a command that fails does not keep the later ones from
\* running.  Every run of __start's body and of __done is such a run of the
\* preBuild and of the postBuild entry.
C38_RunInOrder ==
    /\ [](lastRun # <<>> =>
            \E name \in {"preBuild", "postBuild"} :
                /\ pkg[name].kind \in {"string", "array"}
                /\ Len(lastRun) =
                      (IF pkg[name].kind = "string" THEN 2
                       ELSE 2 * Len(pkg[name].v))
                /\ \A i \in 1..(Len(lastRun) \div 2) :
                      LET task == IF pkg[name].kind = "string"
                                  THEN pkg[name].v ELSE pkg[name].v[i]
                      IN  /\ lastRun[2 * i - 1] = <<"spawn", resolved(task)>>
                          /\ Len(lastRun[2 * i]) = 3
                          /\ lastRun[2 * i][1] = "exit"
                          /\ lastRun[2 * i][2] = resolved(task)
                          /\ lastRun[2 * i][3] \in ExitCodes)
    /\ [][/\ (stats'.pre # stats.pre /\ pkg.preBuild.kind = "array") =>
                /\ Len(lastRun') = 2 * Len(pkg.preBuild.v)
                /\ \A i \in 1..Len(pkg.preBuild.v) :
                      lastRun'[2 * i][2] = resolved(pkg.preBuild.v[i])
          /\ (stats'.post # stats.post /\ pkg.postBuild.kind = "array") =>
                /\ Len(lastRun') = 2 * Len(pkg.postBuild.v)
                /\ \A i \in 1..Len(pkg.postBuild.v) :
                      lastRun'[2 * i][2] = resolved(pkg.postBuild.v[i])
          /\ (stats'.post # stats.post /\ pkg.postBuild.kind = "string") =>
                /\ Len(lastRun') = 2
                /\ lastRun'[2][2] = resolved(pkg.postBuild.v)]_vars

\* __done has run a postBuild list of two commands: the first one failed and
\* the second one ran after it.
C38_Witness ==
    /\ stats.post >= 1 /\ pkg.postBuild.kind = "array"
    /\ Len(lastRun) = 4
    /\ lastRun[2][1] = "exit" /\ lastRun[2][3] = 1
    /\ lastRun[3][1] = "spawn" /\ lastRun[3][2] # lastRun[1][2]
    /\ lastRun[4][3] = 0

====
